---- MODULE Spec2Model ----
(***************************************************************************)
(* Warp-pipe: the Axon worker (axon.go) replaying the changesets of a      *)
(* source database on a target database.                                   *)
(*                                                                         *)
(* The model holds the source database (rows, the changeset sequence, the  *)
(* open producer transactions and the committed warp_pipe.changesets       *)
(* table), the target database, the listener's output stream and the      *)
(* position of Axon.Run in its select loop.                                *)
(*                                                                         *)
(* Spec is Axon.Run with the producers and the listener around it.         *)
(* SpecApply is the changes case of Run with the changeset's data in full  *)
(* (schema, key extraction, sequences), SpecVerify is Axon.Verify and      *)
(* SpecSetup is the setup-db command. SpecClosed is Spec with a listener   *)
(* that closes its streams while Run is in its loop.                       *)
(***************************************************************************)
EXTENDS Integers, Sequences, FiniteSets, TLC

\* ---------------------------------------------------------------- bounds
MaxChangesets == 2      \* changeset ids the source sequence hands out
MaxRuns == 2            \* calls of Axon.Run
BatchLimit == 2         \* changesets the listener reads per wake
MaxTables == 2          \* tables GenerateTablesList hands to Verify
MaxPosition == 2        \* highest position key of a primary-key field

\* ------------------------------------------------------ program constants
ShutdownChCap == 1      \* make(chan os.Signal, 1)

\* What Run does, in order, before it starts the listener; each step can
\* fail, and then Run returns its error.
StartupSteps ==
    <<"sqlx.Open source", "sqlx.Open target", "checkTargetVersion",
      "printSourceStats", "loadPrimaryKeys", "loadColumnSequences",
      "loadOrphanSequences", "NewWarpPipe", "wp.Open">>
NumStartupSteps == 9

\* What Run holds once its first n startup steps went through, and with the
\* listener started.
Opened(n) ==
    (IF n >= 1 THEN {"sourceDBConn"} ELSE {})
        \cup (IF n >= 2 THEN {"targetDBConn"} ELSE {})
        \cup (IF n >= 9 THEN {"wp"} ELSE {})
Resources == Opened(NumStartupSteps) \cup {"ctx"}
NilCh == -1             \* a.shutdownCh before Run has made the channel
Absent == 0             \* no row under a primary key

Producers == {1, 2}      \* concurrent producer connections
Keys == {1, 2}           \* primary keys of the tracked table
Vals == {1, 2}           \* distinct row contents
Kinds == {"INSERT", "UPDATE", "DELETE"}

NoTxn == [id |-> 0, kind |-> "NONE", key |-> 0, val |-> 0]
NoChange == NoTxn

Schemas == {"public", "mirror"}   \* schemas holding the tracked table
NoSchema == ""           \* TargetDBSchema left empty
NoKey == 0               \* the nil key getPrimaryKeyForChange returns with an error

\* A changeset with its data in full: hasKey says that old_values carries
\* the primary key (never for an Insert, whose old_values is empty).
FullChangesets ==
    {c \in [id : 1..MaxChangesets, kind : Kinds, schema : Schemas, key : Keys,
            val : Vals \cup {Absent}, hasKey : BOOLEAN] :
        /\ c.kind = "DELETE" <=> c.val = Absent
        /\ c.kind = "INSERT" => ~c.hasKey}

NoFullChange == [id |-> 0, kind |-> "NONE", schema |-> NoSchema, key |-> 0,
                 val |-> 0, hasKey |-> FALSE]

VARIABLES
    seq,         \* last value of the changesets id sequence on the source
    txn,         \* txn[p]: the changeset written by p's open transaction
    srcRows,     \* committed rows of the tracked table on the source
    log,         \* committed rows of warp_pipe.changesets
    producing,   \* the producers' wait groups have not been waited for yet
    tgtRows,     \* rows of the tracked table on the target
    pc,          \* where Axon.Run is
    result,      \* what the last Run returned
    cfg,         \* a.Config: ShutdownAfterLastChangeset, StartFromID
    runs,        \* calls of Run so far
    shutdownCh,  \* signals buffered in a.shutdownCh, NilCh before make
    cur,         \* the changeset Run has received and is handling
    changes,     \* changesets the listener has read and is emitting
    errs,        \* errors pending on the listener's error stream
    cursor,      \* last_emitted: id of the last changeset dequeued
    emitted,     \* history: ids the listener emitted in this run, in order
    applied,     \* history: ids whose statement Run has executed in this run
    hw,          \* history: highest id whose statement was ever executed
    replayed,    \* history: this run has executed a statement once more
    last,        \* history: id of the statement executed most recently
    clean,       \* history: no statement ever failed, no id was passed over
    faulted,     \* history: a statement of this run failed on the target
    drained,     \* history: how this run took its drain decision
    startup,     \* startup steps the last Run got through
    open,        \* what that Run opened and has not closed or cancelled
    closed,      \* the listener has closed its two streams
    received,    \* the changeset as the changes case took it off the channel
    change,      \* the changeset as the changes case hands it to processChange
    issued,      \* the row statements processChange sent for it, in order
    tgtTables,   \* the tracked table of every schema of the target
    tgtSeqs,     \* the sequence owned by the key column of each of them
    tables,      \* Verify: the list GenerateTablesList returned
    verifyPc,    \* Verify: where it is
    tableIdx,    \* Verify: index in tables of the table the loop is at
    verifyResult, \* Verify: what it returned
    errTable,    \* Verify: index of the table its error names, 0 for none
    queried,     \* Verify: indices of the tables a checksum query was run on
    orderByClause, \* Verify: the key columns of the last ORDER BY built
    noPKey,      \* setup-db: the tables of the source without a primary key
    triggers,    \* setup-db: the tables of the source carrying the capture trigger
    setupArgs,   \* setup-db: --schema and --ignore-tables of the last call
    setupResult  \* setup-db: how the last call ended, none once the source was altered

vars == <<seq, txn, srcRows, log, producing, tgtRows, pc, result, cfg, runs,
          shutdownCh, cur, changes, errs, cursor, emitted, applied, hw, replayed,
          last, clean, faulted, drained, startup, open, closed,
          received, change, issued, tgtTables, tgtSeqs,
          tables, verifyPc, tableIdx, verifyResult, errTable, queried,
          orderByClause, noPKey, triggers, setupArgs, setupResult>>

srcVars == <<seq, txn, srcRows, log, producing>>
runVars == <<pc, result, cfg, runs, shutdownCh, cur>>
lsnVars == <<changes, errs, cursor>>
histVars == <<emitted, applied, hw, replayed, last, clean, faulted, drained>>
resVars == <<startup, open, closed>>
mainVars == <<srcVars, tgtRows, runVars, lsnVars, histVars, resVars>>
applyVars == <<received, change, issued, tgtTables, tgtSeqs>>
verifyVars == <<tables, verifyPc, tableIdx, verifyResult, errTable, queried,
                orderByClause>>
setupVars == <<noPKey, triggers, setupArgs, setupResult>>
toolVars == <<applyVars, verifyVars, setupVars>>

\* ------------------------------------------------------------- helpers
Max(S) == CHOOSE x \in S : \A y \in S : y <= x

IdsOf(S) == {c.id : c \in S}

\* The changesets of S in ascending id order, at most n of them
\* (SELECT ... WHERE id > $1 ORDER BY id LIMIT n).
RECURSIVE OrderById(_, _)
OrderById(S, n) ==
    IF S = {} \/ n = 0 THEN <<>>
    ELSE LET first == CHOOSE c \in S : \A d \in S : c.id <= d.id
         IN <<first>> \o OrderById(S \ {first}, n - 1)

IdSeq(s) == [i \in 1..Len(s) |-> s[i].id]

\* One statement on a table (insertRow, updateRow, deleteRow on the target,
\* the producers' statements on the source): INSERT fails on an existing
\* key and changes nothing, UPDATE and DELETE touch the row under the key if
\* there is one.
ExecStatement(rows, c) ==
    CASE c.kind = "INSERT" ->
            IF rows[c.key] = Absent THEN [rows EXCEPT ![c.key] = c.val] ELSE rows
      [] c.kind = "UPDATE" ->
            IF rows[c.key] # Absent THEN [rows EXCEPT ![c.key] = c.val] ELSE rows
      [] c.kind = "DELETE" -> [rows EXCEPT ![c.key] = Absent]
      [] OTHER -> rows

\* A processChange whose switch has no case for ChangesetKindDelete.
processChangeNoDelete(rows, c, fail) ==
    IF fail \/ c.kind = "DELETE" THEN rows ELSE ExecStatement(rows, c)

\* processChange: the statement for one changeset. fail is a key that
\* cannot be extracted or a statement the target rejects for another reason
\* than a duplicate key; every error is logged and nothing else happens.
processChange(rows, c, fail) ==
    IF fail THEN rows ELSE ExecStatement(rows, c)

\* wp.IsLatestChangeSet(id): id is the current maximum of the source table.
IsLatestChangeSet(id) == log # {} /\ id = Max(IdsOf(log))

EmptyRows == [k \in Keys |-> Absent]

\* ---------------------------------------------------------------- Init
\* Nothing applied to the schemas of the target yet.
InitApply ==
    /\ received = NoFullChange
    /\ change = NoFullChange
    /\ issued = <<>>
    /\ tgtTables = [s \in Schemas |-> EmptyRows]
    /\ tgtSeqs = [s \in Schemas |-> 0]

\* Verify has not been called.
InitVerify ==
    /\ tables = <<>>
    /\ verifyPc = "idle"
    /\ tableIdx = 0
    /\ verifyResult = "none"
    /\ errTable = 0
    /\ queried = {}
    /\ orderByClause = <<>>

TableNames == {"t1", "t2"}
SourceTables == [schema : Schemas, name : TableNames]
NoArgs == [schema |-> NoSchema, ignore |-> {}]

\* setup-db has not been called; every table has a primary key.
InitSetup ==
    /\ noPKey = {}
    /\ triggers = {}
    /\ setupArgs = NoArgs
    /\ setupResult = "none"

InitTools == InitApply /\ InitVerify /\ InitSetup

\* An Axon on which Run has not been called, empty databases.
InitRun ==
    /\ seq = 0
    /\ txn = [p \in Producers |-> NoTxn]
    /\ srcRows = EmptyRows
    /\ log = {}
    /\ producing = TRUE
    /\ tgtRows = EmptyRows
    /\ pc = "idle"
    /\ result = "none"
    /\ runs = 0
    /\ shutdownCh = NilCh
    /\ cur = NoChange
    /\ changes = <<>>
    /\ errs = 0
    /\ cursor = 0
    /\ emitted = <<>>
    /\ applied = <<>>
    /\ hw = 0
    /\ replayed = FALSE
    /\ last = 0
    /\ clean = TRUE
    /\ faulted = FALSE
    /\ drained = "no"
    /\ startup = 0
    /\ open = {}
    /\ closed = FALSE

\* TargetDBSchema is "public", its default and what the migration test sets.
Init ==
    /\ InitRun
    /\ cfg \in [drain : BOOLEAN, start : {0}, schema : {"public"}]
    /\ InitTools

\* ------------------------------------------------------------ producers
\* A producer statement inside its transaction: the row lock is taken, the
\* AFTER ROW trigger draws the next id and writes the changeset row, which
\* stays invisible until the commit. Connections are interchangeable, so a
\* statement goes to the first idle one.
Begin(p, kind, key, val) ==
    /\ producing
    /\ txn[p] = NoTxn
    /\ \A q \in Producers : q < p => txn[q] # NoTxn
    /\ seq < MaxChangesets
    /\ \A q \in Producers : txn[q] # NoTxn => txn[q].key # key
    /\ IF kind = "INSERT" THEN srcRows[key] = Absent ELSE srcRows[key] # Absent
    /\ kind = "DELETE" => val = Absent
    /\ kind # "DELETE" => val # Absent
    /\ seq' = seq + 1
    /\ txn' = [txn EXCEPT ![p] = [id |-> seq + 1, kind |-> kind, key |-> key, val |-> val]]
    /\ UNCHANGED <<srcRows, log, producing, tgtRows>>
    /\ UNCHANGED <<runVars, lsnVars, histVars>>
    /\ UNCHANGED <<resVars, toolVars>>

\* The commit makes the row change and its changeset visible together.
Commit(p) ==
    /\ txn[p] # NoTxn
    /\ srcRows' = ExecStatement(srcRows, txn[p])
    /\ log' = log \cup {txn[p]}
    /\ txn' = [txn EXCEPT ![p] = NoTxn]
    /\ UNCHANGED <<seq, producing, tgtRows>>
    /\ UNCHANGED <<runVars, lsnVars, histVars>>
    /\ UNCHANGED <<resVars, toolVars>>

\* insertsWG.Wait(); updatesWG.Wait(); deletesWG.Wait()
ProducersDone ==
    /\ producing
    /\ \A p \in Producers : txn[p] = NoTxn
    /\ producing' = FALSE
    /\ UNCHANGED <<seq, txn, srcRows, log, tgtRows>>
    /\ UNCHANGED <<runVars, lsnVars, histVars>>
    /\ UNCHANGED <<resVars, toolVars>>

ProducersStopped == ~producing

\* ------------------------------------------------------------- listener
ListenerRunning == pc \in {"select", "process", "isLatest", "shutdownSend"}

\* A wake of the listener with its last batch handed over: read the
\* changesets above last_emitted, in id order, and start emitting them.
ListenerRead ==
    /\ ListenerRunning
    /\ ~closed
    /\ changes = <<>>
    /\ LET new == {c \in log : c.id > cursor}
       IN /\ new # {}
          /\ changes' = OrderById(new, BatchLimit)
          /\ emitted' = emitted \o IdSeq(OrderById(new, BatchLimit))
    /\ UNCHANGED <<errs, cursor, applied, hw, replayed, last, clean, faulted, drained, tgtRows>>
    /\ UNCHANGED <<srcVars, runVars>>
    /\ UNCHANGED <<resVars, toolVars>>

\* The listener gives up on its connection and surfaces a fatal error.
ListenerError ==
    /\ ListenerRunning
    /\ ~closed
    /\ errs = 0
    /\ errs' = 1
    /\ UNCHANGED <<changes, cursor, tgtRows>>
    /\ UNCHANGED <<srcVars, runVars, histVars>>
    /\ UNCHANGED <<resVars, toolVars>>

\* ------------------------------------------------------------- Axon.Run
\* A Run that goes on when loadOrphanSequences has failed.
RunStartUnchecked(start, failAt) ==
    /\ pc \in {"idle", "returned"}
    /\ runs < MaxRuns
    /\ runs' = runs + 1
    /\ cfg' = [cfg EXCEPT !.start = start]
    /\ shutdownCh' = IF shutdownCh = NilCh THEN 0 ELSE shutdownCh
    /\ cur' = NoChange
    /\ IF failAt \in {0, 7}
       THEN /\ pc' = "select"
            /\ result' = "none"
            /\ startup' = IF failAt = 0 THEN NumStartupSteps ELSE failAt - 1
            /\ open' = Resources
            /\ closed' = FALSE
            /\ cursor' = start
            /\ changes' = <<>>
            /\ errs' = 0
            /\ emitted' = <<>>
            /\ applied' = <<>>
            /\ drained' = "no"
            /\ replayed' = FALSE
            /\ faulted' = FALSE
            /\ UNCHANGED <<hw, last, clean>>
       ELSE /\ pc' = "returned"
            /\ result' = "err_startup"
            /\ startup' = failAt - 1
            /\ open' = Opened(failAt - 1)
            /\ UNCHANGED closed
            /\ UNCHANGED <<lsnVars, histVars>>
    /\ UNCHANGED <<srcVars, tgtRows>>
    /\ UNCHANGED toolVars

\* Run up to the select loop: the channel is made once, the startup steps
\* go through in order up to the first that fails (failAt, 0 for none), and
\* then Run returns its error; after the last the listener is started.
\* StartFromID is an id a prior run has logged: at most the id of the last
\* statement executed. ShutdownAfterLastChangeset is the same for every Run
\* of one Axon.
RunStart(start, failAt) ==
    /\ pc \in {"idle", "returned"}
    /\ runs < MaxRuns
    /\ runs' = runs + 1
    /\ cfg' = [cfg EXCEPT !.start = start]
    /\ shutdownCh' = IF shutdownCh = NilCh THEN 0 ELSE shutdownCh
    /\ cur' = NoChange
    /\ IF failAt = 0
       THEN /\ pc' = "select"
            /\ startup' = NumStartupSteps
            /\ open' = Resources
            /\ closed' = FALSE
            /\ result' = "none"
            /\ cursor' = start
            /\ changes' = <<>>
            /\ errs' = 0
            /\ emitted' = <<>>
            /\ applied' = <<>>
            /\ drained' = "no"
            /\ replayed' = FALSE
            /\ faulted' = FALSE
            /\ UNCHANGED <<hw, last, clean>>
       ELSE /\ pc' = "returned"
            /\ result' = "err_startup"
            /\ startup' = failAt - 1
            /\ open' = Opened(failAt - 1)
            /\ UNCHANGED closed
            /\ UNCHANGED <<lsnVars, histVars>>
    /\ UNCHANGED <<srcVars, tgtRows>>
    /\ UNCHANGED toolVars

\* signal.Notify(a.shutdownCh, os.Interrupt, syscall.SIGTERM): the runtime
\* sends without blocking and drops the signal when the buffer is full.
OSSignal ==
    /\ shutdownCh # NilCh
    /\ shutdownCh < ShutdownChCap
    /\ shutdownCh' = shutdownCh + 1
    /\ UNCHANGED <<pc, result, cfg, runs, cur, tgtRows>>
    /\ UNCHANGED <<srcVars, lsnVars, histVars>>
    /\ UNCHANGED <<resVars, toolVars>>

\* Axon.Shutdown: a.shutdownCh <- syscall.SIGTERM, which waits for room.
Shutdown ==
    /\ shutdownCh # NilCh
    /\ shutdownCh < ShutdownChCap
    /\ shutdownCh' = shutdownCh + 1

\* a.Shutdown() called from outside Run, at any time.
ShutdownCall ==
    /\ Shutdown
    /\ UNCHANGED <<pc, result, cfg, runs, cur, tgtRows>>
    /\ UNCHANGED <<srcVars, lsnVars, histVars>>
    /\ UNCHANGED <<resVars, toolVars>>

\* case <-a.shutdownCh: cancel, close everything, return nil.
ShutdownCase ==
    /\ pc = "select"
    /\ shutdownCh > 0
    /\ shutdownCh' = shutdownCh - 1
    /\ pc' = "returned"
    /\ result' = "nil"
    /\ open' = open \ {"ctx", "wp", "sourceDBConn", "targetDBConn"}
    /\ UNCHANGED <<startup, closed>>
    /\ UNCHANGED <<cfg, runs, cur, tgtRows>>
    /\ UNCHANGED <<srcVars, lsnVars, histVars>>
    /\ UNCHANGED toolVars

\* case err := <-errs: return the listener's error.
ErrCase ==
    /\ pc = "select"
    /\ errs > 0
    /\ errs' = errs - 1
    /\ pc' = "returned"
    /\ result' = "err_listener"
    /\ UNCHANGED <<cfg, runs, shutdownCh, cur, changes, cursor, tgtRows>>
    /\ UNCHANGED <<srcVars, histVars>>
    /\ UNCHANGED <<resVars, toolVars>>

\* A receive that takes the newest element instead of the oldest.
DequeueLast(ch) == [item |-> ch[Len(ch)], rest |-> SubSeq(ch, 1, Len(ch) - 1)]

\* change := <-changes
Dequeue(ch) == [item |-> Head(ch), rest |-> Tail(ch)]

\* A receive case that goes back to the select without calling processChange.
RecvChangeSkip ==
    /\ pc = "select"
    /\ changes # <<>>
    /\ LET d == Dequeue(changes)
       IN /\ changes' = d.rest
          /\ cursor' = d.item.id
          /\ clean' = (clean /\ d.item.id = cursor + 1)
    /\ UNCHANGED <<pc, cur, result, cfg, runs, shutdownCh, errs, tgtRows>>
    /\ UNCHANGED <<srcVars, emitted, applied, hw, replayed, last, faulted, drained>>
    /\ UNCHANGED <<resVars, toolVars>>

\* case change := <-changes: the listener's send completes, so it moves
\* last_emitted to the id it handed over.
RecvChange ==
    /\ pc = "select"
    /\ changes # <<>>
    /\ LET d == Dequeue(changes)
       IN /\ cur' = d.item
          /\ changes' = d.rest
          /\ cursor' = d.item.id
          /\ clean' = (clean /\ d.item.id = cursor + 1)
    /\ pc' = "process"
    /\ UNCHANGED <<result, cfg, runs, shutdownCh, errs, tgtRows>>
    /\ UNCHANGED <<srcVars, emitted, applied, hw, replayed, last, faulted, drained>>
    /\ UNCHANGED <<resVars, toolVars>>

\* Where Run goes once processChange is back.
AfterProcess == IF cfg.drain THEN "isLatest" ELSE "select"

\* A processChange call whose statement error is returned from Run.
ProcessChangeFatal(fail) ==
    /\ pc = "process"
    /\ tgtRows' = processChange(tgtRows, cur, fail)
    /\ applied' = Append(applied, cur.id)
    /\ hw' = IF cur.id > hw THEN cur.id ELSE hw
    /\ last' = cur.id
    /\ clean' = (clean /\ ~fail)
    /\ faulted' = (faulted \/ fail)
    /\ pc' = IF fail THEN "returned" ELSE AfterProcess
    /\ result' = IF fail THEN "err_apply" ELSE result
    /\ cur' = IF cfg.drain /\ ~fail THEN cur ELSE NoChange
    /\ UNCHANGED <<cfg, runs, shutdownCh>>
    /\ replayed' = (replayed \/ cur.id <= hw)
    /\ UNCHANGED <<srcVars, lsnVars, emitted, drained>>
    /\ UNCHANGED <<resVars, toolVars>>

\* a.processChange(sourceDBConn, targetDBConn, change)
ProcessChange(fail) ==
    /\ pc = "process"
    /\ tgtRows' = processChange(tgtRows, cur, fail)
    /\ applied' = Append(applied, cur.id)
    /\ hw' = IF cur.id > hw THEN cur.id ELSE hw
    /\ last' = cur.id
    /\ clean' = (clean /\ ~fail)
    /\ faulted' = (faulted \/ fail)
    /\ pc' = AfterProcess
    /\ cur' = IF cfg.drain THEN cur ELSE NoChange
    /\ UNCHANGED <<result, cfg, runs, shutdownCh>>
    /\ replayed' = (replayed \/ cur.id <= hw)
    /\ UNCHANGED <<srcVars, lsnVars, emitted, drained>>
    /\ UNCHANGED <<resVars, toolVars>>

\* if a.Config.ShutdownAfterLastChangeset { isLatest, err := ... }
IsLatestCheck(err) ==
    /\ pc = "isLatest"
    /\ cur' = NoChange
    /\ IF err
       THEN /\ pc' = "returned"
            /\ result' = "err_latest"
            /\ UNCHANGED drained
       ELSE IF IsLatestChangeSet(cur.id)
       THEN /\ pc' = "shutdownSend"
            /\ drained' = IF producing THEN "busy" ELSE "quiet"
            /\ UNCHANGED result
       ELSE /\ pc' = "select"
            /\ UNCHANGED <<result, drained>>
    /\ UNCHANGED <<cfg, runs, shutdownCh, tgtRows>>
    /\ UNCHANGED <<srcVars, lsnVars, emitted, applied, hw, replayed, last, clean, faulted>>
    /\ UNCHANGED <<resVars, toolVars>>

\* a.Shutdown() called by Run itself after the sync is complete.
ShutdownSend ==
    /\ pc = "shutdownSend"
    /\ Shutdown
    /\ pc' = "select"
    /\ UNCHANGED <<result, cfg, runs, cur, tgtRows>>
    /\ UNCHANGED <<srcVars, lsnVars, histVars>>
    /\ UNCHANGED <<resVars, toolVars>>

\* func (a *Axon) Run() error, called with some StartFromID.
Run == \E start \in 0..last, failAt \in 0..NumStartupSteps : RunStart(start, failAt)

\* ---------------------------------------------------------------- Next
Next ==
    \/ \E p \in Producers, kind \in Kinds, key \in Keys, val \in Vals \cup {Absent} :
          Begin(p, kind, key, val)
    \/ \E p \in Producers : Commit(p)
    \/ ProducersDone
    \/ ListenerRead
    \/ ListenerError
    \/ Run
    \/ OSSignal
    \/ ShutdownCall
    \/ ShutdownCase
    \/ ErrCase
    \/ RecvChange
    \/ \E fail \in BOOLEAN : ProcessChange(fail)
    \/ \E err \in BOOLEAN : IsLatestCheck(err)
    \/ ShutdownSend

Spec == Init /\ [][Next]_vars

\* Run's own steps: the three cases of its select and what follows them.
RunStep ==
    \/ ShutdownCase
    \/ ErrCase
    \/ RecvChange
    \/ \E fail \in BOOLEAN : ProcessChange(fail)
    \/ \E err \in BOOLEAN : IsLatestCheck(err)
    \/ ShutdownSend

\* ------------------------------------------- a listener that closes
\* The listener ends while Run is in its loop: it has handed over its
\* batch and closes the changeset stream and the error stream.
ListenerClose ==
    /\ ListenerRunning
    /\ ~closed
    /\ changes = <<>>
    /\ closed' = TRUE
    /\ UNCHANGED <<startup, open, tgtRows>>
    /\ UNCHANGED <<srcVars, runVars, lsnVars, histVars, toolVars>>

\* case err := <-errs on the closed, empty stream: the receive yields nil
\* at once and Run returns an error wrapping it.
ErrCaseClosed ==
    /\ pc = "select"
    /\ closed
    /\ errs = 0
    /\ pc' = "returned"
    /\ result' = "err_listener"
    /\ UNCHANGED <<cfg, runs, shutdownCh, cur, tgtRows>>
    /\ UNCHANGED <<srcVars, lsnVars, histVars, resVars, toolVars>>

\* case change := <-changes on the closed stream: change is nil, and Run
\* dereferences it, at change.Schema when a TargetDBSchema is set and at
\* change.Kind in processChange otherwise.
RecvChangeClosed ==
    /\ pc = "select"
    /\ closed
    /\ changes = <<>>
    /\ cur' = NoChange
    /\ pc' = "panicked"
    /\ UNCHANGED <<result, cfg, runs, shutdownCh, tgtRows>>
    /\ UNCHANGED <<srcVars, lsnVars, histVars, resVars, toolVars>>

NextClosed ==
    \/ Next
    \/ ListenerClose
    \/ ErrCaseClosed
    \/ RecvChangeClosed

SpecClosed == Init /\ [][NextClosed]_vars

\* ------------------------------------------- the changes case, in full
\* A schema override that is never applied.
SchemaOverrideNever(c, target) == c

\* if a.Config.TargetDBSchema != "" { change.Schema = a.Config.TargetDBSchema }
SchemaOverride(c, target) ==
    IF target # NoSchema THEN [c EXCEPT !.schema = target] ELSE c

\* getPrimaryKeyForChange: the key of the row the changeset is about, or an
\* error and no key.
getPrimaryKeyForChange(c) ==
    IF c.hasKey THEN [err |-> FALSE, pk |-> c.key] ELSE [err |-> TRUE, pk |-> NoKey]

Stmt(op, c, pk) == [op |-> op, schema |-> c.schema, key |-> pk]

\* A setval that sets the sequence to the inserted value.
setvalPlain(current, v) == v

\* setval to max(current, inserted value)
setval(current, v) == IF v > current THEN v ELSE current

\* insertRow: the INSERT and, when it went through, the setval of the
\* sequence the key column owns. reject is a target that refuses the
\* statement; a duplicate key refuses it too.
insertRow(db, c, reject) ==
    IF reject \/ db.tables[c.schema][c.key] # Absent
    THEN [tables |-> db.tables, seqs |-> db.seqs,
          stmts |-> <<Stmt("INSERT", c, c.key)>>]
    ELSE [tables |-> [db.tables EXCEPT ![c.schema][c.key] = c.val],
          seqs |-> [db.seqs EXCEPT ![c.schema] = setval(@, c.key)],
          stmts |-> <<Stmt("INSERT", c, c.key), Stmt("SETVAL", c, c.key)>>]

\* updateRow: UPDATE ... WHERE pk = ...; a statement without a key or for a
\* key without a row changes nothing.
updateRow(db, c, pk, reject) ==
    [tables |-> IF reject \/ pk = NoKey \/ db.tables[c.schema][pk] = Absent
                THEN db.tables
                ELSE [db.tables EXCEPT ![c.schema][pk] = c.val],
     seqs |-> db.seqs,
     stmts |-> <<Stmt("UPDATE", c, pk)>>]

\* deleteRow: DELETE ... WHERE pk = ...
deleteRow(db, c, pk, reject) ==
    [tables |-> IF reject \/ pk = NoKey
                THEN db.tables
                ELSE [db.tables EXCEPT ![c.schema][pk] = Absent],
     seqs |-> db.seqs,
     stmts |-> <<Stmt("DELETE", c, pk)>>]

\* processInsert: insertRow, its error logged.
processInsert(db, c, reject) == insertRow(db, c, reject)

\* processUpdate: the key error is logged, and updateRow is called with
\* whatever key came back; its error is logged too.
processUpdate(db, c, reject) ==
    LET r == getPrimaryKeyForChange(c) IN updateRow(db, c, r.pk, reject)

\* processDelete: as processUpdate, with deleteRow.
processDelete(db, c, reject) ==
    LET r == getPrimaryKeyForChange(c) IN deleteRow(db, c, r.pk, reject)

\* processChange with the changeset's data in full: switch change.Kind.
processChangeset(db, c, reject) ==
    CASE c.kind = "INSERT" -> processInsert(db, c, reject)
      [] c.kind = "UPDATE" -> processUpdate(db, c, reject)
      [] c.kind = "DELETE" -> processDelete(db, c, reject)
      [] OTHER -> [tables |-> db.tables, seqs |-> db.seqs, stmts |-> <<>>]

\* case change := <-changes with the changeset's data in full: the schema
\* override, then processChange.
HandleChange(c, reject) ==
    /\ LET ch == SchemaOverride(c, cfg.schema)
           r == processChangeset([tables |-> tgtTables, seqs |-> tgtSeqs], ch, reject)
       IN /\ received' = c
          /\ change' = ch
          /\ issued' = r.stmts
          /\ tgtTables' = r.tables
          /\ tgtSeqs' = r.seqs
    /\ UNCHANGED <<mainVars, verifyVars, setupVars>>

\* Changesets of any kind, for either schema, arriving at an Axon with any
\* TargetDBSchema.
InitApplySpec ==
    /\ InitRun
    /\ cfg \in [drain : {FALSE}, start : {0}, schema : Schemas \cup {NoSchema}]
    /\ InitTools

NextApply == \E c \in FullChangesets, reject \in BOOLEAN : HandleChange(c, reject)

SpecApply == InitApplySpec /\ [][NextApply]_vars

\* ---------------------------------------------------------- Axon.Verify
Columns == {"a", "b"}            \* columns a primary key is made of
Positions == 0..MaxPosition      \* keys PKeyFields can hold
Checksums == {1, 2}              \* results of the checksum query

IsInjective(f) == \A x, y \in DOMAIN f : f[x] = f[y] => x = y

\* table.PKeyFields: position -> column name, over any set of positions.
PKeyFieldsSet ==
    {f \in UNION {[P -> Columns] : P \in SUBSET Positions} : IsInjective(f)}

\* A table descriptor and what the checksum query yields for it on either
\* side.
TableSet == [PKeyFields : PKeyFieldsSet, source : Checksums, target : Checksums]

TableLists == UNION {[1..n -> TableSet] : n \in 0..MaxTables}

\* pkColumns := make([]string, len(table.PKeyFields)); pkColumns[position-1]
\* = column for every entry: the slice, 1-based here, or a run-time panic when
\* some position-1 is no index of it.
PkColumns(PKeyFields) ==
    LET n == Cardinality(DOMAIN PKeyFields)
    IN IF \E position \in DOMAIN PKeyFields : position - 1 \notin 0..(n - 1)
       THEN [panic |-> TRUE, cols |-> <<>>]
       ELSE [panic |-> FALSE, cols |-> [i \in 1..n |-> PKeyFields[i]]]

\* A comparison that lets every pair of checksums pass.
ChecksumsDifferNever(sourceChecksum, targetChecksum) == FALSE

\* if sourceChecksum != targetChecksum
ChecksumsDiffer(sourceChecksum, targetChecksum) == sourceChecksum # targetChecksum

\* Verify up to its loop: the logger, both connections, both
\* PrepareForDataIntegrityChecks and GenerateTablesList; any of them failing
\* ends Verify with its error.
VerifyStart(list, ok) ==
    /\ verifyPc = "idle"
    /\ IF ok
       THEN /\ tables' = list
            /\ verifyPc' = "loop"
            /\ tableIdx' = 1
            /\ UNCHANGED verifyResult
       ELSE /\ verifyPc' = "returned"
            /\ verifyResult' = "err_setup"
            /\ UNCHANGED <<tables, tableIdx>>
    /\ UNCHANGED <<errTable, queried, orderByClause>>
    /\ UNCHANGED <<mainVars, applyVars, setupVars>>

\* One turn of for _, table := range tables. scan tells which of the two
\* checksum queries fails, if any.
VerifyTable(scan) ==
    /\ verifyPc = "loop"
    /\ tableIdx <= Len(tables)
    /\ LET table == tables[tableIdx]
           pk == PkColumns(table.PKeyFields)
       IN IF Cardinality(DOMAIN table.PKeyFields) < 1
          THEN /\ verifyPc' = "returned"
               /\ verifyResult' = "err_nopk"
               /\ errTable' = tableIdx
               /\ UNCHANGED <<tableIdx, queried, orderByClause>>
          ELSE IF pk.panic
          THEN /\ verifyPc' = "panicked"
               /\ errTable' = tableIdx
               /\ UNCHANGED <<tableIdx, verifyResult, queried, orderByClause>>
          ELSE /\ orderByClause' = pk.cols
               /\ queried' = queried \cup {tableIdx}
               /\ IF scan # "none"
                  THEN /\ verifyPc' = "returned"
                       /\ verifyResult' = "err_scan"
                       /\ errTable' = tableIdx
                       /\ UNCHANGED tableIdx
                  ELSE IF ChecksumsDiffer(table.source, table.target)
                  THEN /\ verifyPc' = "returned"
                       /\ verifyResult' = "err_differ"
                       /\ errTable' = tableIdx
                       /\ UNCHANGED tableIdx
                  ELSE /\ tableIdx' = tableIdx + 1
                       /\ UNCHANGED <<verifyPc, verifyResult, errTable>>
    /\ UNCHANGED tables
    /\ UNCHANGED <<mainVars, applyVars, setupVars>>

\* return nil after the last table.
VerifyReturn ==
    /\ verifyPc = "loop"
    /\ tableIdx > Len(tables)
    /\ verifyPc' = "returned"
    /\ verifyResult' = "nil"
    /\ UNCHANGED <<tables, tableIdx, errTable, queried, orderByClause>>
    /\ UNCHANGED <<mainVars, applyVars, setupVars>>

\* func (a *Axon) Verify(schemas, includeTables, excludeTables []string) error
Verify ==
    /\ verifyPc = "idle"
    /\ \E list \in TableLists, ok \in BOOLEAN : VerifyStart(list, ok)

InitVerifySpec ==
    /\ InitRun
    /\ cfg \in [drain : {FALSE}, start : {0}, schema : {"public"}]
    /\ InitTools

NextVerify ==
    \/ Verify
    \/ \E scan \in {"none", "source", "target"} : VerifyTable(scan)
    \/ VerifyReturn

SpecVerify == InitVerifySpec /\ [][NextVerify]_vars

\* ------------------------------------------------------------- setup-db
TablesOf(S) == {t \in SourceTables : t.schema = S}

\* The tables setup puts the trigger on: those of the schema that are not
\* ignored and have a primary key.
Tracked(S, I) == {t \in TablesOf(S) : t.name \notin I /\ t \notin noPKey}

\* A setup that only ever adds triggers.
SetupDatabaseAddOnly(trg, S, I) == trg \cup Tracked(S, I)

\* db.SetupDatabase(conn, schema, ignoreTables): the triggers of the schema
\* are brought to the tracked set, those of other schemas are left alone.
SetupDatabase(trg, S, I) == (trg \ TablesOf(S)) \cup Tracked(S, I)

\* setup-db --schema S --ignore-tables I. fail is parseConfig, pgx.Connect
\* or SetupDatabase returning an error, with nothing installed.
SetupDB(S, I, fail) ==
    /\ setupArgs' = [schema |-> S, ignore |-> I]
    /\ IF fail
       THEN /\ setupResult' = "error"
            /\ UNCHANGED triggers
       ELSE /\ setupResult' = "ok"
            /\ triggers' = SetupDatabase(triggers, S, I)
    /\ UNCHANGED noPKey
    /\ UNCHANGED <<mainVars, applyVars, verifyVars>>

\* Between two setups: a trigger dropped by hand, a table left without a
\* primary key (its trigger stays), a primary key added.
DropTrigger(t) ==
    /\ t \in triggers
    /\ triggers' = triggers \ {t}
    /\ setupResult' = "none"
    /\ UNCHANGED <<noPKey, setupArgs>>
    /\ UNCHANGED <<mainVars, applyVars, verifyVars>>

AlterPKey(t) ==
    /\ noPKey' = IF t \in noPKey THEN noPKey \ {t} ELSE noPKey \cup {t}
    /\ setupResult' = "none"
    /\ UNCHANGED <<triggers, setupArgs>>
    /\ UNCHANGED <<mainVars, applyVars, verifyVars>>

InitSetupSpec ==
    /\ InitRun
    /\ cfg \in [drain : {FALSE}, start : {0}, schema : {"public"}]
    /\ InitTools

NextSetup ==
    \/ \E S \in Schemas, I \in SUBSET TableNames, fail \in BOOLEAN : SetupDB(S, I, fail)
    \/ \E t \in SourceTables : DropTrigger(t)
    \/ \E t \in SourceTables : AlterPKey(t)

SpecSetup == InitSetupSpec /\ [][NextSetup]_vars

\* --------------------------------------------------------------- claims
Range(s) == {s[i] : i \in 1..Len(s)}

IsPrefix(s, t) == Len(s) <= Len(t) /\ \A i \in 1..Len(s) : s[i] = t[i]

\* Ids Run has received in this run, in the order it received them.
Received == IF pc = "process" THEN Append(applied, cur.id) ELSE applied

ChangesetById(n) == CHOOSE c \in log : c.id = n

\* The table after the statements of changesets 1..n, each executed once,
\* in id order, on an empty table: what one uninterrupted run produces.
RECURSIVE Canon(_)
Canon(n) == IF n = 0 THEN EmptyRows ELSE ExecStatement(Canon(n - 1), ChangesetById(n))

\* C1: once the producers have stopped and a drain-mode Run (started from
\* id 0, no statement failing) has returned nil after finding its last
\* changeset to be the latest, the target table holds the source's rows.
C1_Convergence ==
    (/\ ProducersStopped
     /\ pc = "returned"
     /\ result = "nil"
     /\ cfg.drain
     /\ cfg.start = 0
     /\ drained = "quiet"
     /\ ~faulted) => tgtRows = srcRows

\* C2: within one Run at most one changeset is being applied, and the
\* changesets are applied in the order the listener emitted them, each once,
\* with strictly increasing ids.
C2_SerialInOrder ==
    /\ \A i, j \in 1..Len(applied) : i < j => applied[i] < applied[j]
    /\ IsPrefix(Received, emitted)
    /\ Len(emitted) - Len(changes) - Len(applied) = (IF pc = "process" THEN 1 ELSE 0)

C2_Witness ==
    /\ pc = "process"
    /\ changes # <<>>
    /\ cur.id < changes[1].id

\* C3: a reader that reads id > cursor in id order and moves its cursor to
\* the highest id read has received every committed changeset at or below
\* its cursor: none commits behind the cursor.
C3_NoSkip ==
    ListenerRunning =>
        \A c \in log : (cfg.start < c.id /\ c.id <= cursor) => c.id \in Range(Received)

\* C4: in drain mode, once the applied changeset is the latest, Run goes on
\* to return: it is never blocked inside its own Shutdown call.
C4_DrainTerminates ==
    pc = "shutdownSend" => ENABLED ShutdownSend

\* C5: a drain-mode Run whose source holds no changeset above the start id
\* exits without a changeset arriving and without a shutdown signal: with
\* nothing pending on any channel it still has a step to take.
C5_EmptyCatchUpExits ==
    (/\ pc = "select"
     /\ cfg.drain
     /\ {c \in log : c.id > cfg.start} = {}
     /\ changes = <<>>
     /\ errs = 0
     /\ shutdownCh = 0) => ENABLED RunStep

\* C6: when Run returns on the shutdown signal, every changeset the listener
\* had emitted has been applied.
C6_ShutdownDrains ==
    (pc = "returned" /\ result = "nil") => Range(emitted) \subseteq Range(applied)

C8_CursorMonotone ==
    [][ListenerRunning => cursor' >= cursor]_vars

C8_Witness ==
    /\ ListenerRunning
    /\ cursor > cfg.start + 1
    /\ faulted

C10_ApplyErrorsNeverEndRun ==
    [][(pc \in {"process", "isLatest", "shutdownSend"}) => (pc' # "returned")]_vars

\* C10 as amended: a failing statement never makes Run return. Run returns
\* from its select on a shutdown signal (nil) or a listener error, from its
\* startup steps, or, in drain mode, on a failed is-latest check.
C10_StatementErrorsNeverEndRun ==
    [][(pc # "returned" /\ pc' = "returned") =>
          \/ pc = "idle" /\ result' = "err_startup"
          \/ pc = "select" /\ result' = "nil" /\ shutdownCh > 0
          \/ pc = "select" /\ result' = "err_listener" /\ errs > 0
          \/ pc = "isLatest" /\ cfg.drain /\ result' = "err_latest"]_vars

C10_Witness ==
    /\ pc = "select"
    /\ faulted
    /\ applied # <<>>
    /\ result = "none"

\* C11: for an Update or Delete changeset whose primary key cannot be
\* extracted, the applier sends no UPDATE or DELETE statement to the target.
C11_MissingKeySkipped ==
    (change.kind \in {"UPDATE", "DELETE"} /\ getPrimaryKeyForChange(change).err)
        => issued = <<>>

\* C12: the changeset handed to processChange is the one received with its
\* schema replaced by a non-empty TargetDBSchema and nothing else changed,
\* or the one received when TargetDBSchema is empty; every statement is
\* built for that schema, and no table of another schema is touched.
C12_SchemaOverride ==
    /\ [](received # NoFullChange =>
            /\ change = [received EXCEPT !.schema =
                            IF cfg.schema # NoSchema THEN cfg.schema ELSE received.schema]
            /\ \A i \in 1..Len(issued) : issued[i].schema = change.schema)
    /\ [][\A s \in Schemas : s # change'.schema =>
            (tgtTables'[s] = tgtTables[s] /\ tgtSeqs'[s] = tgtSeqs[s])]_vars

C12_Witness ==
    /\ cfg.schema = "mirror"
    /\ received.schema = "public"
    /\ change.schema = "mirror"
    /\ tgtTables["mirror"] # EmptyRows
    /\ tgtTables["public"] = EmptyRows

\* C14: no step lowers the sequence the key column owns, and once a row is
\* inserted the sequence is at least its key: the sequence is at least every
\* value inserted so far.
C14_SequenceFloor ==
    [][\A s \in Schemas :
          /\ tgtSeqs'[s] >= tgtSeqs[s]
          /\ \A k \in Keys :
                (tgtTables[s][k] = Absent /\ tgtTables'[s][k] # Absent) => tgtSeqs'[s] >= k]_vars

C14_Witness ==
    /\ change.kind = "INSERT"
    /\ Len(issued) = 2
    /\ tgtTables[change.schema][change.key] = change.val
    /\ tgtSeqs[change.schema] > change.key

HasPKey(t) == Cardinality(DOMAIN t.PKeyFields) >= 1

\* The position keys are 1..n.
PositionsFromOne(t) == DOMAIN t.PKeyFields = 1..Cardinality(DOMAIN t.PKeyFields)

Verified(t) == HasPKey(t) /\ t.source = t.target

VerifyEnded == verifyPc \in {"returned", "panicked"}

\* C13 as stated: Verify returns nil exactly when every table of the list
\* has a primary-key column and equal checksums; otherwise its error names
\* the first table that has not, and no table after that one is queried.
C13_VerifyOutcome ==
    VerifyEnded =>
        /\ (verifyPc = "returned" /\ verifyResult = "nil")
              <=> \A i \in 1..Len(tables) : Verified(tables[i])
        /\ ~(verifyPc = "returned" /\ verifyResult = "nil") =>
              /\ errTable \in 1..Len(tables)
              /\ ~Verified(tables[errTable])
              /\ \A i \in 1..(errTable - 1) : Verified(tables[i])
              /\ \A i \in queried : i <= errTable

\* C13 as amended: Verify returns nil exactly when nothing fails before the
\* loop and every table, in list order, has a primary-key column, position
\* keys 1..n, two checksum queries that succeed and equal checksums. The
\* first table that has not ends Verify and no later table is queried: an
\* error naming the table for a missing key, a failed query or differing
\* checksums, a panic for other position keys. A failure before the loop
\* returns an error naming no table.
C13_VerifyOutcomeOrFailure ==
    VerifyEnded =>
        /\ verifyResult = "nil" =>
              /\ verifyPc = "returned"
              /\ errTable = 0
              /\ queried = 1..Len(tables)
              /\ \A i \in 1..Len(tables) : Verified(tables[i]) /\ PositionsFromOne(tables[i])
        /\ verifyResult = "err_setup" => (tables = <<>> /\ errTable = 0 /\ queried = {})
        /\ verifyResult \notin {"nil", "err_setup"} =>
              /\ errTable \in 1..Len(tables)
              /\ \A i \in 1..(errTable - 1) : Verified(tables[i]) /\ PositionsFromOne(tables[i])
              /\ \A i \in queried : i <= errTable
              /\ LET t == tables[errTable]
                 IN CASE verifyPc = "panicked" ->
                            HasPKey(t) /\ ~PositionsFromOne(t) /\ errTable \notin queried
                      [] verifyResult = "err_nopk" -> ~HasPKey(t) /\ errTable \notin queried
                      [] verifyResult = "err_differ" ->
                            HasPKey(t) /\ PositionsFromOne(t) /\ t.source # t.target
                      [] verifyResult = "err_scan" -> HasPKey(t) /\ PositionsFromOne(t)
                      [] OTHER -> FALSE

C13_Witness ==
    /\ verifyPc = "returned"
    /\ verifyResult = "err_differ"
    /\ Len(tables) = 2
    /\ errTable = 1
    /\ queried = {1}
    /\ ~Verified(tables[2])

C15_StartupGating ==
    /\ [](/\ ListenerRunning => startup = NumStartupSteps
          /\ (pc = "returned" /\ startup < NumStartupSteps) => result = "err_startup"
          /\ "wp" \in open => startup = NumStartupSteps)
    /\ [][/\ tgtRows' # tgtRows => (startup = NumStartupSteps /\ pc = "process")
          /\ ListenerRunning => startup' = startup
          /\ runs' # runs => tgtRows' = tgtRows]_vars

C15_Witness ==
    /\ pc = "returned"
    /\ result = "err_startup"
    /\ StartupSteps[startup + 1] = "checkTargetVersion"
    /\ log # {}
    /\ tgtRows = EmptyRows

\* C18: once drain mode has found the applied changeset to be the latest,
\* Run receives and applies no further changeset before it returns.
C18_NoApplyAfterDrain ==
    drained # "no" => pc \notin {"process", "isLatest"}

\* C19: whenever Run has returned after starting the listener, by the
\* shutdown signal, a listener error or a failed is-latest check, the context
\* is cancelled and the warp pipe and both connections are closed.
C19_ResourcesReleased ==
    (pc = "returned" /\ result \in {"nil", "err_listener", "err_latest"}) => open = {}

\* C20: a Shutdown call returns in every state of the worker: its send can
\* complete at once, or Run is on its way back to the select that makes
\* room for it.
C20_ShutdownReturns ==
    ENABLED ShutdownCall \/ pc \in {"select", "process", "isLatest"}

C21_ClosedStreamsHandled ==
    /\ [](pc = "panicked" => cur # NoChange)
    /\ [][(pc = "select" /\ pc' = "returned" /\ result' = "err_listener") => errs > 0]_vars

====
